---------------------------- MODULE Spec2Model ----------------------------
(***************************************************************************)
(* Model of sudoku.py: the AC3-style propagation (make_move, make_moves,  *)
(* ac3), the recursive guess tree (expand_guess_tree), solve and the      *)
(* entry point backtracking.                                               *)
(*                                                                         *)
(* A key "A1".."I9" is the pair <<r, c>> of the positions of its two       *)
(* characters in ROW and COL.  Board dictionaries live in a heap of        *)
(* objects, because Sudoku.__init__ stores a reference to the caller's     *)
(* dictionary and deepcopy allocates a new one for every clone.            *)
(***************************************************************************)
EXTENDS Integers, Sequences, FiniteSets, TLC

VARIABLES
    input,      \* the digits of the grid as the caller passed it (never written)
    heap,       \* board dictionaries by address; address 1 is the caller's `board`
    stack,      \* the Sudoku objects whose methods are active, root first
    phase,      \* "search", "unwind", "return", "done"
    s,          \* the value solve() is returning: pending, None or a Sudoku object
    returned    \* the dictionary backtracking returned (its contents), once done

vars == <<input, heap, stack, phase, s, returned>>

----------------------------------------------------------------------------
(* Bounds of the model *)

\* how many cells of BlankOrder an input grid may leave empty
NPool == 7

----------------------------------------------------------------------------
(* Topology: Sudoku.__init__ *)

\* positions of the characters of "ABCDEFGHI" and of "123456789"
ROW == 1..9
COL == 1..9

\* self.keys, in the order they are appended: A1..A9, B1..B9, ..., I9
keys == [n \in 1..81 |-> <<((n - 1) \div 9) + 1, ((n - 1) % 9) + 1>>]

constraints_row == [r \in ROW |-> [c \in COL |-> <<r, c>>]]

constraints_col == [c \in COL |-> [r \in ROW |-> <<r, c>>]]

\* element 3*r_box + c_box + 1 holds, at position 3*r + c + 1, the key
\* ROW[3*r_box + r] COL[3*c_box + c]
constraints_box ==
    [b \in 1..9 |->
        [p \in 1..9 |->
            <<3 * ((b - 1) \div 3) + ((p - 1) \div 3) + 1,
              3 * ((b - 1) % 3) + ((p - 1) % 3) + 1>>]]

constraints_lists_all == <<constraints_row, constraints_col, constraints_box>>

----------------------------------------------------------------------------
(* Python list and dict primitives *)

Range(f) == {f[x] : x \in DOMAIN f}

\* x in list
In(x, list) == \E i \in 1..Len(list) : list[i] = x

\* list.index(x), for x in list
Index(x, list) == CHOOSE i \in 1..Len(list) :
                      list[i] = x /\ \A j \in 1..(i - 1) : list[j] # x

\* del list[i]
DelAt(list, i) == [j \in 1..(Len(list) - 1) |-> IF j < i THEN list[j] ELSE list[j + 1]]

\* list.remove(x), for x in list
Remove(list, x) == DelAt(list, Index(x, list))

\* a faulty variant of DelKey: the entry is left in the dictionary
DelKey_keep(dict, k) == dict

\* del dict[k]
DelKey(dict, k) == [x \in (DOMAIN dict) \ {k} |-> dict[x]]

\* x in dict.values()
InValues(x, dict) == \E k \in DOMAIN dict : dict[k] = x

\* the element of a one-element set.  The({e(r) : r \in {x}}) is e with r
\* standing for the value of x, which is computed once, before e: the
\* sequencing of two statements
The(S) == CHOOSE y \in S : TRUE

----------------------------------------------------------------------------
(* Sudoku methods on one object; o is [board, domain, unresolved] with    *)
(* the board dictionary's contents in o.board                              *)

\* lines 94-100: the domain and the unresolved list of a new object
RECURSIVE init_unresolved(_, _)
init_unresolved(board, n) ==
    IF n = 0 THEN <<>>
    ELSE IF board[keys[n]] = 0
         THEN Append(init_unresolved(board, n - 1), keys[n])
         ELSE init_unresolved(board, n - 1)

init_domain(board) ==
    [k \in {keys[n] : n \in {m \in 1..81 : board[keys[m]] = 0}} |->
        <<1, 2, 3, 4, 5, 6, 7, 8, 9>>]

is_incomplete(board) == InValues(0, board)

\* a faulty variant of is_solved: the groups are not checked
is_solved_unchecked(board) == ~(is_incomplete(board) \/ InValues(-1, board))

is_solved(board) ==
    IF is_incomplete(board) \/ InValues(-1, board)
    THEN FALSE
    ELSE \A n \in 1..3 : \A g \in 1..9 :
            LET constraint_list == constraints_lists_all[n][g] IN
            \A i \in 1..9 : \A j \in 1..(i - 1) :
                board[constraint_list[i]] # board[constraint_list[j]]

make_move(board, key, value) ==
    IF \E n \in 1..3 : \E g \in 1..9 :
          LET constraint_list == constraints_lists_all[n][g] IN
          /\ In(key, constraint_list)
          /\ \E i \in 1..9 : value = board[constraint_list[i]]
    THEN -1
    ELSE value

\* the for loop of make_moves (lines 145-155) from position i of the list;
\* returned: the loop left the function at line 155
RECURSIVE make_moves_for(_, _, _, _, _)
make_moves_for(o, key, constraint_list, i, continue_loop) ==
    IF i > Len(constraint_list)
    THEN [o |-> o, returned |-> FALSE, continue_loop |-> continue_loop]
    ELSE LET k == constraint_list[i] IN
         IF o.board[k] # 0 /\ In(o.board[k], o.domain[key])
         THEN LET b   == Index(o.board[k], o.domain[key])
                  dom == DelAt(o.domain[key], b)
              IN  IF Len(dom) = 1
                  THEN [o |-> [board      |-> [o.board EXCEPT
                                                 ![key] = make_move(o.board, key, dom[1])],
                               unresolved |-> Remove(o.unresolved, key),
                               domain     |-> DelKey(o.domain, key)],
                        returned |-> TRUE,
                        continue_loop |-> TRUE]
                  ELSE The({make_moves_for(o1, key, constraint_list, i + 1, TRUE) :
                               o1 \in {[o EXCEPT !.domain[key] = dom]}})
         ELSE make_moves_for(o, key, constraint_list, i + 1, continue_loop)

\* the while loop of make_moves (lines 143-156)
RECURSIVE make_moves_while(_, _, _, _)
make_moves_while(o, key, constraint_list, has_changes) ==
    The({IF r.returned
         THEN [o |-> r.o, result |-> FALSE]
         ELSE IF r.continue_loop
              THEN make_moves_while(r.o, key, constraint_list, TRUE)
              ELSE [o |-> r.o, result |-> has_changes] :
         r \in {make_moves_for(o, key, constraint_list, 1, FALSE)}})

\* a faulty variant of make_moves: line 156 returns True
make_moves_true(o, key, constraint_list) ==
    [o |-> make_moves_while(o, key, constraint_list, FALSE).o, result |-> TRUE]

make_moves(o, key, constraint_list) ==
    make_moves_while(o, key, constraint_list, FALSE)

\* lines 165-167: for key in constraint_list; `or` does not call make_moves
\* once has_changes is True
RECURSIVE ac3_keys(_, _, _, _)
ac3_keys(o, has_changes, constraint_list, i) ==
    IF i > Len(constraint_list)
    THEN [o |-> o, has_changes |-> has_changes]
    ELSE LET key == constraint_list[i] IN
         IF In(key, o.unresolved) /\ ~has_changes
         THEN The({ac3_keys(r.o, r.result, constraint_list, i + 1) :
                      r \in {make_moves(o, key, constraint_list)}})
         ELSE ac3_keys(o, has_changes, constraint_list, i + 1)

\* line 164: for constraint_list in constraints_list
RECURSIVE ac3_lists(_, _, _, _)
ac3_lists(o, has_changes, constraints_list, g) ==
    IF g > Len(constraints_list)
    THEN [o |-> o, has_changes |-> has_changes]
    ELSE The({ac3_lists(r.o, r.has_changes, constraints_list, g + 1) :
                 r \in {ac3_keys(o, has_changes, constraints_list[g], 1)}})

\* line 163: for constraints_list in self.constraints_lists_all
RECURSIVE ac3_all(_, _, _)
ac3_all(o, has_changes, n) ==
    IF n > Len(constraints_lists_all)
    THEN [o |-> o, has_changes |-> has_changes]
    ELSE The({ac3_all(r.o, r.has_changes, n + 1) :
                 r \in {ac3_lists(o, has_changes, constraints_lists_all[n], 1)}})

\* one iteration of the while loop of ac3 (lines 162-167)
ac3_sweep(o) == ac3_all(o, FALSE, 1)

----------------------------------------------------------------------------
(* The guess list of expand_guess_tree (lines 174-177) *)

\* "A1" < "A2" < ... < "A9" < "B1" < ...: Python's comparison of two keys
KeyLess(k1, k2) == k1[1] < k2[1] \/ (k1[1] = k2[1] /\ k1[2] < k2[2])

\* a faulty variant of TupleLess: the tuples are compared by their keys alone
TupleLess_keyonly(t1, t2) == KeyLess(t1[2], t2[2])

\* Python's comparison of two (len(value), key) tuples
TupleLess(t1, t2) == t1[1] < t2[1] \/ (t1[1] = t2[1] /\ KeyLess(t1[2], t2[2]))

\* list.sort() of a list holding the tuples of T, which are distinct
RECURSIVE Sorted(_)
Sorted(T) ==
    IF T = {} THEN <<>>
    ELSE The({<<least>> \o Sorted(T \ {least}) :
                 least \in {t \in T : \A u \in T \ {t} : TupleLess(t, u)}})

guess_list_sorted(domain) == Sorted({<<Len(domain[k]), k>> : k \in DOMAIN domain})

----------------------------------------------------------------------------
(* Objects, addresses and the call stack *)

Pending == [kind |-> "pending", board |-> 0]
None    == [kind |-> "None", board |-> 0]
Solved(addr) == [kind |-> "Solved", board |-> addr]

NoKey == <<0, 0>>

\* Sudoku(board): the object keeps a reference to the dictionary it is given
Sudoku(addr, h) ==
    [board       |-> addr,
     domain      |-> init_domain(h[addr]),
     unresolved  |-> init_unresolved(h[addr], 81),
     guess_list  |-> <<>>,
     pc          |-> "ac3",
     key         |-> NoKey,
     values_list |-> <<>>,
     i           |-> 0]

\* the first address the heap does not use
NewAddr(h) == CHOOSE a \in 1..(Cardinality(DOMAIN h) + 1) :
                  a \notin DOMAIN h /\ \A b \in 1..(a - 1) : b \in DOMAIN h

\* a faulty variant of deepcopy: copy.copy(self), the clone shares self's dictionary
copy_shallow(self, h) == [obj |-> self, heap |-> h]

\* deepcopy(self): a new object with a dictionary of its own
deepcopy(self, h) ==
    LET a == NewAddr(h) IN
    [obj  |-> [self EXCEPT !.board = a],
     heap |-> [x \in (DOMAIN h) \cup {a} |-> IF x = a THEN h[self.board] ELSE h[x]]]

\* the dictionaries still referenced: the caller's, those of the objects on
\* the stack, and the one of the object being returned
Live(h, st, ret) ==
    [x \in (DOMAIN h) \cap ({1} \cup {st[n].board : n \in 1..Len(st)} \cup {ret.board})
        |-> h[x]]

Top == stack[Len(stack)]

View(obj, h) == [board |-> h[obj.board], domain |-> obj.domain, unresolved |-> obj.unresolved]

SetTop(st, obj) == [st EXCEPT ![Len(st)] = obj]

Pop(st) == SubSeq(st, 1, Len(st) - 1)

----------------------------------------------------------------------------
(* Input grids *)

\* a solved grid
Base == [k \in Range(keys) |-> ((3 * (k[1] - 1) + ((k[1] - 1) \div 3) + (k[2] - 1)) % 9) + 1]

\* the cells an input may leave empty: A5 A8 B2 B5 A2 B8 C2 C5 C8
BlankOrder == <<<<1, 5>>, <<1, 8>>, <<2, 2>>, <<2, 5>>, <<1, 2>>, <<2, 8>>,
                <<3, 2>>, <<3, 5>>, <<3, 8>>>>

Pool == {BlankOrder[n] : n \in {m \in 1..Len(BlankOrder) : m <= NPool}}

\* givens replaced by another digit: none, A1 = 5, C9 = 8
Overwrites == {<<>>, [k \in {<<1, 1>>} |-> 5], [k \in {<<3, 9>>} |-> 8]}

Grid(blank, over) ==
    [k \in Range(keys) |->
        IF k \in blank THEN 0 ELSE IF k \in DOMAIN over THEN over[k] ELSE Base[k]]

Inputs == {Grid(blank, over) : blank \in SUBSET Pool, over \in Overwrites}

----------------------------------------------------------------------------
(* The state machine *)

\* backtracking, line 39: b = Sudoku(board), about to run b.solve()
Init ==
    /\ input \in Inputs
    /\ heap = [a \in {1} |-> input]
    /\ stack = <<Sudoku(1, heap)>>
    /\ phase = "search"
    /\ s = Pending
    /\ returned = <<>>

\* ac3, one iteration of its while loop; the loop ends, and ac3 returns, after
\* an iteration that leaves has_changes False
ac3 ==
    /\ phase = "search"
    /\ Top.pc = "ac3"
    /\ \E r \in {ac3_sweep(View(Top, heap))} :
       /\ heap' = [heap EXCEPT ![Top.board] = r.o.board]
       /\ stack' = SetTop(stack, [Top EXCEPT !.domain = r.o.domain,
                                              !.unresolved = r.o.unresolved,
                                              !.pc = IF r.has_changes THEN "ac3" ELSE "check"])
    /\ UNCHANGED <<input, phase, s, returned>>

\* solve, lines 219-228, after self.ac3() returned
solve ==
    /\ phase = "search"
    /\ Len(stack) = 1
    /\ Top.pc = "check"
    /\ IF is_solved(heap[Top.board])
       THEN /\ s' = Solved(Top.board)
            /\ phase' = "return"
            /\ stack' = SetTop(stack, [Top EXCEPT !.pc = "end"])
       ELSE IF is_incomplete(heap[Top.board])
       THEN /\ stack' = SetTop(stack, [Top EXCEPT !.pc = "expand"])
            /\ UNCHANGED <<s, phase>>
       ELSE /\ s' = None
            /\ phase' = "return"
            /\ stack' = SetTop(stack, [Top EXCEPT !.pc = "end"])
    /\ UNCHANGED <<input, heap, returned>>

\* a faulty variant of expand_select: lines 184-185 are missing, the guess cell stays
\* in domain and unresolved
expand_select_keep ==
    /\ phase = "search"
    /\ Top.pc = "expand"
    /\ \E sorted \in {guess_list_sorted(Top.domain)} :
       LET next_guess == sorted[1]
           key        == next_guess[2]
       IN  stack' = SetTop(stack, [Top EXCEPT !.guess_list = Tail(sorted),
                                              !.key = key,
                                              !.values_list = Top.domain[key],
                                              !.i = 1,
                                              !.pc = "loop"])
    /\ UNCHANGED <<input, heap, phase, s, returned>>

\* expand_guess_tree, lines 173-185: build the guess list, take its first
\* entry and remove the key from domain and unresolved
expand_select ==
    /\ phase = "search"
    /\ Top.pc = "expand"
    /\ \E sorted \in {guess_list_sorted(Top.domain)} :
       LET next_guess == sorted[1]
           key        == next_guess[2]
       IN  stack' = SetTop(stack, [Top EXCEPT !.guess_list = Tail(sorted),
                                              !.key = key,
                                              !.values_list = Top.domain[key],
                                              !.domain = DelKey(Top.domain, key),
                                              !.unresolved = Remove(Top.unresolved, key),
                                              !.i = 1,
                                              !.pc = "loop"])
    /\ UNCHANGED <<input, heap, phase, s, returned>>

\* lines 188-196: the next value of values_list; p = deepcopy(self),
\* p.board[key] = value, and p.ac3() is entered
expand_try ==
    /\ phase = "search"
    /\ Top.pc = "loop"
    /\ Top.i <= Len(Top.values_list)
    /\ \E c \in {deepcopy(Top, heap)} :
       LET value == Top.values_list[Top.i]
           p     == [c.obj EXCEPT !.pc = "ac3", !.key = NoKey, !.values_list = <<>>, !.i = 0]
       IN  /\ heap' = [c.heap EXCEPT ![p.board][Top.key] = value]
           /\ stack' = Append(SetTop(stack, [Top EXCEPT !.pc = "wait"]), p)
    /\ UNCHANGED <<input, phase, s, returned>>

\* lines 199-209, after p.ac3() returned: return p, expand p, or go on with
\* the next value
expand_check ==
    /\ phase = "search"
    /\ Len(stack) > 1
    /\ Top.pc = "check"
    /\ LET parent == stack[Len(stack) - 1] IN
       IF is_solved(heap[Top.board])
       THEN /\ s' = Solved(Top.board)
            /\ phase' = "unwind"
            /\ stack' = Pop(stack)
            /\ heap' = Live(heap, stack', s')
       ELSE IF is_incomplete(heap[Top.board])
       THEN /\ stack' = SetTop(stack, [Top EXCEPT !.pc = "expand"])
            /\ UNCHANGED <<s, phase, heap>>
       ELSE /\ stack' = SetTop(Pop(stack), [parent EXCEPT !.i = parent.i + 1, !.pc = "loop"])
            /\ heap' = Live(heap, stack', s)
            /\ UNCHANGED <<s, phase>>
    /\ UNCHANGED <<input, returned>>

\* line 212: every value was tried, return None to the caller
expand_none ==
    /\ phase = "search"
    /\ Top.pc = "loop"
    /\ Top.i > Len(Top.values_list)
    /\ IF Len(stack) = 1
       THEN /\ s' = None
            /\ phase' = "return"
            /\ stack' = SetTop(stack, [Top EXCEPT !.pc = "end"])
            /\ UNCHANGED heap
       ELSE LET parent == stack[Len(stack) - 1] IN
            /\ stack' = SetTop(Pop(stack), [parent EXCEPT !.i = parent.i + 1, !.pc = "loop"])
            /\ heap' = Live(heap, stack', s)
            /\ UNCHANGED <<s, phase>>
    /\ UNCHANGED <<input, returned>>

\* lines 208-209 and 225: a caller that received a solved p returns it
expand_return ==
    /\ phase = "unwind"
    /\ IF Len(stack) = 1
       THEN /\ phase' = "return"
            /\ stack' = SetTop(stack, [Top EXCEPT !.pc = "end"])
            /\ UNCHANGED heap
       ELSE /\ stack' = Pop(stack)
            /\ heap' = Live(heap, stack', s)
            /\ UNCHANGED phase
    /\ UNCHANGED <<input, s, returned>>

\* a faulty variant of backtracking: `board` is returned whatever solve returned
backtracking_board ==
    /\ phase = "return"
    /\ returned' = heap[1]
    /\ phase' = "done"
    /\ UNCHANGED <<input, heap, stack, s>>

\* backtracking, lines 41-44
backtracking ==
    /\ phase = "return"
    /\ returned' = IF s.kind = "None" THEN heap[1] ELSE heap[s.board]
    /\ phase' = "done"
    /\ UNCHANGED <<input, heap, stack, s>>

Next ==
    \/ ac3
    \/ solve
    \/ expand_select
    \/ expand_try
    \/ expand_check
    \/ expand_none
    \/ expand_return
    \/ backtracking

Spec == Init /\ [][Next]_vars

\* the program is sequential: whatever step is enabled is taken
FairSpec == Init /\ [][Next]_vars /\ WF_vars(Next)

----------------------------------------------------------------------------
(* Vocabulary of the properties, stated without the program's tables *)

Cells == (1..9) \X (1..9)

\* the 27 groups: rows, columns and 3x3 blocks
Groups ==
    {{k \in Cells : k[1] = r} : r \in 1..9}
    \cup {{k \in Cells : k[2] = c} : c \in 1..9}
    \cup {{k \in Cells : (k[1] - 1) \div 3 = br /\ (k[2] - 1) \div 3 = bc} :
            br \in 0..2, bc \in 0..2}

Peers(k) == UNION {g \in Groups : k \in g} \ {k}

\* every cell holds a digit and every group holds each digit exactly once
Valid(board) ==
    /\ DOMAIN board = Cells
    /\ \A k \in Cells : board[k] \in 1..9
    /\ \A g \in Groups : \A d \in 1..9 : Cardinality({k \in g : board[k] = d}) = 1

\* the grids that fill the empty cells of g, from the n-th cell in row-major
\* order on, with digits no peer holds
RECURSIVE Fill(_, _)
Fill(g, n) ==
    IF n > 81 THEN {g}
    ELSE LET k == <<((n - 1) \div 9) + 1, ((n - 1) % 9) + 1>> IN
         IF g[k] # 0 THEN Fill(g, n + 1)
         ELSE UNION {Fill([g EXCEPT ![k] = d], n + 1) :
                        d \in {e \in 1..9 : \A q \in Peers(k) : g[q] # e}}

\* the valid completions of a grid
Completions(g) == {h \in Fill(g, 1) : Valid(h)}

RowMajor(k) == 9 * (k[1] - 1) + k[2]

Empty(board) == {k \in Cells : board[k] = 0}

Frames == 1..Len(stack)

\* the number of expand_guess_tree calls that are active
Depth == Cardinality({n \in Frames : stack[n].pc \in {"expand", "loop", "wait"}})

\* no unresolved cell has in its domain a digit one of its peers holds
Fixpoint(o) ==
    \A n \in 1..Len(o.unresolved) :
        LET k == o.unresolved[n] IN
        \A q \in Peers(k) : ~In(o.board[q], o.domain[k])

----------------------------------------------------------------------------
(* Claims *)

\* C1: when the search fails (solve returned None), the board backtracking
\* returns equals the grid as it was passed in, cell for cell.
C1_FallbackUnchanged ==
    (phase = "done" /\ s.kind = "None") => returned = input

\* C2: whenever a Solved result is returned, at the root or from any depth of
\* the guess tree, the board has no 0 and no -1 and each of the 27 groups
\* holds every digit 1..9 exactly once.
C2_SolvedIsValid ==
    /\ s.kind = "Solved" => Valid(heap[s.board])
    /\ (phase = "done" /\ s.kind = "Solved") => Valid(returned)

\* a clone found below the root was returned as the solved board
C2_Witness ==
    /\ phase = "done"
    /\ s.kind = "Solved"
    /\ s.board # 1
    /\ Valid(returned)

\* C3: for an input with exactly one valid completion, backtracking returns
\* exactly that completion, never the unsolved grid; the result is a function
\* of the input alone.
C3_UniqueCompletionFound ==
    (phase = "done" /\ Cardinality(Completions(input)) = 1)
        => (s.kind = "Solved" /\ returned \in Completions(input))

\* a grid with one completion that propagation at the root did not finish,
\* solved by a clone after an earlier candidate had failed
C3_Witness ==
    /\ phase = "done"
    /\ Cardinality(Completions(input)) = 1
    /\ returned \in Completions(input)
    /\ stack[1].i > 1

\* C4 (state part): solve ends Solved or None and cannot raise: a guess list
\* is only built from a non-empty domain, every unresolved key has a domain
\* entry, and the recursion is never deeper than the number of cells that
\* were empty at the start.
C4_Safe ==
    /\ s.kind \in {"pending", "None", "Solved"}
    /\ phase \in {"return", "done"} => s.kind \in {"None", "Solved"}
    /\ \A n \in Frames :
          /\ stack[n].pc = "expand" => DOMAIN stack[n].domain # {}
          /\ Range(stack[n].unresolved) \subseteq DOMAIN stack[n].domain
    /\ Depth <= Cardinality(Empty(input))

\* C4: for every well-formed input solve terminates, Solved or None, without
\* raising; every ac3 call ends after finitely many sweeps.
C4_Terminates ==
    /\ []C4_Safe
    /\ ((phase = "search" /\ Top.pc = "ac3") ~> (Top.pc # "ac3"))
    /\ <>(phase = "done")

\* the search went two levels deep and came back
C4_Witness ==
    /\ phase = "search"
    /\ Depth = 2
    /\ Len(stack) = 3
    /\ Top.pc = "check"

\* C5: whenever ac3 returns, no unresolved cell's domain holds a digit that a
\* peer holds, and one more sweep changes nothing.
C5_Ac3Fixpoint ==
    \A n \in Frames :
        stack[n].pc = "check" =>
            /\ Fixpoint(View(stack[n], heap))
            /\ ac3_sweep(View(stack[n], heap)).o = View(stack[n], heap)

\* C6: neither solve nor expand_guess_tree selects a cell and branches from a
\* state whose board holds -1.
C6_NoBranchFromInvalid ==
    \A n \in Frames :
        stack[n].pc \in {"expand", "loop", "wait"} => ~InValues(-1, heap[stack[n].board])

\* C7 as claimed: in every state of every object, also a parent that has
\* chosen its guess cell, the keys of Domain are exactly the empty cells, and
\* Unresolved has the same members.
C7_DomainIffEmpty ==
    \A n \in Frames :
        /\ DOMAIN stack[n].domain = Empty(heap[stack[n].board])
        /\ Range(stack[n].unresolved) = DOMAIN stack[n].domain

\* C7 amended: Unresolved and Domain always have the same members, and the
\* keys of Domain are exactly the empty cells except for the guess cell of an
\* object that has chosen one: that cell stays 0 on the object's own board
\* and is in neither Domain nor Unresolved.
C7_DomainIffEmptyButGuess ==
    \A n \in Frames :
        LET f == stack[n]
            guess == IF f.key = NoKey THEN {} ELSE {f.key}
        IN  /\ Range(f.unresolved) = DOMAIN f.domain
            /\ Len(f.unresolved) = Cardinality(DOMAIN f.domain)
            /\ guess \cap DOMAIN f.domain = {}
            /\ Empty(heap[f.board]) = DOMAIN f.domain \cup guess

\* a parent waits on a clone while its own guess cell is still 0 and other
\* cells are still in its domain
C7_Witness ==
    \E n \in Frames :
        /\ stack[n].pc = "wait"
        /\ heap[stack[n].board][stack[n].key] = 0
        /\ stack[n].key \notin DOMAIN stack[n].domain
        /\ DOMAIN stack[n].domain # {}

\* C8: the cell expand_guess_tree selects has a domain of minimal size among
\* the keys of Domain, and is the first in row-major order among those of
\* minimal size.
C8_MRVRowMajor ==
    [][\A n \in Frames :
          (stack[n].pc = "expand" /\ n <= Len(stack') /\ stack'[n].pc = "loop") =>
              LET d == stack[n].domain
                  k == stack'[n].key
              IN  /\ k \in DOMAIN d
                  /\ stack'[n].values_list = d[k]
                  /\ \A j \in DOMAIN d :
                        /\ Len(d[k]) <= Len(d[j])
                        /\ Len(d[j]) = Len(d[k]) => RowMajor(k) <= RowMajor(j)]_vars

\* a selection that passed over an earlier cell with a larger domain and
\* broke a tie with a later cell of the same size
C8_Witness ==
    \E n \in Frames :
        LET f == stack[n] IN
        /\ f.pc = "loop"
        /\ f.i = 1
        /\ \E j \in DOMAIN f.domain :
              RowMajor(j) < RowMajor(f.key) /\ Len(f.domain[j]) > Len(f.values_list)
        /\ \E j \in DOMAIN f.domain :
              RowMajor(j) > RowMajor(f.key) /\ Len(f.domain[j]) = Len(f.values_list)

\* C9: from the moment an object has chosen its guess cell, its Board, Domain
\* and Unresolved do not change, whatever happens in its clones.
C9_ParentUntouched ==
    [][\A n \in Frames :
          (stack[n].pc \in {"loop", "wait"} /\ n <= Len(stack')) =>
              /\ View(stack'[n], heap') = View(stack[n], heap)
              /\ stack'[n].key = stack[n].key
              /\ stack'[n].values_list = stack[n].values_list]_vars

\* a parent is about to clone itself for a later candidate, after a clone
\* for an earlier one was assigned, propagated and rejected
C9_Witness ==
    \E n \in Frames :
        /\ stack[n].pc = "wait"
        /\ stack[n].i > 1
        /\ n < Len(stack)
        /\ \E k \in Cells \ {stack[n].key} :
              heap[stack[n + 1].board][k] # heap[stack[n].board][k]

\* C10: a cell that holds a given or a committed value (a digit or -1) keeps
\* it in that object and in every clone made of it; every board always has
\* all 81 keys; every given appears unchanged in the returned board.
C10_WriteOnce ==
    /\ [][\A a \in DOMAIN heap' : \A k \in Cells :
             LET from == IF a \in DOMAIN heap THEN a ELSE Top.board IN
             heap[from][k] # 0 => heap'[a][k] = heap[from][k]]_vars
    /\ [](\A a \in DOMAIN heap : DOMAIN heap[a] = Cells)
    /\ [](phase = "done" =>
             /\ DOMAIN returned = Cells
             /\ \A k \in Cells : input[k] # 0 => returned[k] = input[k])

\* a board was returned after propagation and a guess had written cells
C10_Witness ==
    /\ phase = "done"
    /\ s.kind = "Solved"
    /\ s.board # 1
    /\ \E k \in Cells : input[k] # 0
    /\ \E k \in Cells : input[k] = 0 /\ returned[k] # 0 /\ heap[1][k] # 0

============================================================================
